---------------------------- MODULE Spec2Model ----------------------------
(***************************************************************************)
(* Model of the fmt_num ("scaler") number formatter: the Formatter         *)
(* configuration of src/src/lib.rs with its setters, the rounding          *)
(* primitives of src/src/round.rs and Formatter::format of                 *)
(* src/src/format.rs.                                                      *)
(*                                                                         *)
(* Numbers.  An f64 is modelled as a record                                *)
(*     [k |-> "fin" | "inf" | "nan", neg |-> sign bit,                     *)
(*      d |-> decimal digits (most significant first), e |-> exponent]     *)
(* with |x| = d * 10^e.  A finite value is kept normalised (no leading or  *)
(* trailing zero digit, zero is d = << >> and e = 0), so that equality of  *)
(* records is equality of numbers, and -0.0 differs from +0.0 by its sign  *)
(* bit only.  Arithmetic on finite values is exact decimal arithmetic: the *)
(* relative error of at most 2^-53 that a binary f64 adds is not           *)
(* modelled; overflow to infinity, underflow to zero and the NaN rules     *)
(* are.                                                                    *)
(*                                                                         *)
(* Strings.  A Rust String is modelled as the sequence of its UTF-8 bytes: *)
(* an ASCII character is the one-character string of that character, the  *)
(* bytes of a non-ASCII character are named by their hexadecimal value     *)
(* ("C2", "B5" for the micro sign).  The code mixes character positions    *)
(* (chars().position) and byte offsets (find, len, insert_str); the model  *)
(* keeps the two apart.                                                    *)
(***************************************************************************)
EXTENDS Integers, Sequences, FiniteSets, TLC

VARIABLES decimal_separator, group_separator, rounding, scaling, sign,
          overflow_checks, pc, x, s, x_rounded

vars == <<decimal_separator, group_separator, rounding, scaling, sign,
          overflow_checks, pc, x, s, x_rounded>>

--------------------------------------------------------------------------
(* Program constants *)

\* i16::MIN and i16::MAX, the range of Rounding::Magnitude's exponent
I16_MIN == -32768
I16_MAX == 32767
\* u8::MAX, the largest count of Rounding::SignificantDigits
U8_MAX == 255
\* f64::MAX_10_EXP: 10^308 is finite, 10^309 is infinite
F64_MAX_10_EXP == 308
\* the decimal exponent of the smallest positive (subnormal) f64, 4.9 * 10^-324
F64_MIN_10_EXP == -324

--------------------------------------------------------------------------
(* Decimal digit sequences *)

Max(a, b) == IF a >= b THEN a ELSE b
Min(a, b) == IF a <= b THEN a ELSE b

RECURSIVE StripLead(_)
StripLead(d) ==
    IF d = << >> THEN << >>
    ELSE IF d[1] = 0 THEN StripLead(Tail(d)) ELSE d

RECURSIVE TrailZeros(_)
TrailZeros(d) ==
    IF d = << >> THEN 0
    ELSE IF d[Len(d)] = 0 THEN 1 + TrailZeros(SubSeq(d, 1, Len(d) - 1)) ELSE 0

Zeros(n) == [i \in 1..n |-> 0]

RECURSIVE DigitsOf(_)
DigitsOf(n) == IF n = 0 THEN << >> ELSE Append(DigitsOf(n \div 10), n % 10)

\* d / 2 as digits of one more decimal place: a digit of the quotient is read
\* from the digit above it (its parity) and the digit itself
HalfDigits(d) ==
    [i \in 1..(Len(d) + 1) |->
        ((IF i > 1 /\ d[i - 1] % 2 = 1 THEN 10 ELSE 0)
         + (IF i <= Len(d) THEN d[i] ELSE 0)) \div 2]

\* 2 * d, with one more leading digit: a digit of the product is read from
\* the digit itself and the carry of the digit below it
TwiceDigits(d) ==
    [i \in 1..(Len(d) + 1) |->
        (IF i > 1 THEN (2 * d[i - 1]) % 10 ELSE 0)
        + (IF i <= Len(d) /\ d[i] >= 5 THEN 1 ELSE 0)]

\* d + 1
AddOne(d) ==
    LET RECURSIVE go(_)
        go(i) ==
            IF i = 0 THEN <<1>>
            ELSE IF d[i] = 9 THEN Append(go(i - 1), 0)
            ELSE Append(SubSeq(d, 1, i - 1), d[i] + 1)
    IN  go(Len(d))

--------------------------------------------------------------------------
(* f64 values *)

PosInf == [k |-> "inf", neg |-> FALSE, d |-> << >>, e |-> 0]
NegInf == [k |-> "inf", neg |-> TRUE, d |-> << >>, e |-> 0]
NaN(neg) == [k |-> "nan", neg |-> neg, d |-> << >>, e |-> 0]
Zero(neg) == [k |-> "fin", neg |-> neg, d |-> << >>, e |-> 0]

IsFinite(v) == v.k = "fin"
IsZero(v) == v.k = "fin" /\ v.d = << >>

\* floor(log10(|v|)) of a finite nonzero v
Log10Floor(v) == Len(v.d) - 1 + v.e

\* the finite value (-1)^neg * d * 10^e, normalised; beyond the f64 range it
\* overflows to infinity or underflows to zero
Fin(neg, d, e) ==
    LET a == StripLead(d)
        z == TrailZeros(a)
        b == SubSeq(a, 1, Len(a) - z)
    IN  IF b = << >> THEN Zero(neg)
        ELSE IF Len(b) - 1 + e + z > F64_MAX_10_EXP
             THEN [k |-> "inf", neg |-> neg, d |-> << >>, e |-> 0]
        ELSE IF Len(b) - 1 + e + z < F64_MIN_10_EXP THEN Zero(neg)
        ELSE [k |-> "fin", neg |-> neg, d |-> b, e |-> e + z]

Neg(v) == [v EXCEPT !.neg = ~v.neg]
Abs(v) == [v EXCEPT !.neg = FALSE]

\* the digit of v at place 10^p (0 outside the digits)
DigitAt(v, p) ==
    LET i == Len(v.d) - (p - v.e)
    IN  IF i >= 1 /\ i <= Len(v.d) THEN v.d[i] ELSE 0

\* RoundDigits with a half rounded up, away from zero
RoundDigits_HalfUp(v, p) ==
    LET drop == p - v.e
        keep == IF drop >= Len(v.d) THEN << >>
                ELSE SubSeq(v.d, 1, Len(v.d) - drop)
        first == DigitAt(v, p - 1)
        up == drop <= Len(v.d) /\ first >= 5
    IN  IF up THEN AddOne(keep) ELSE keep

\* |v| * 10^(-p) rounded half to even to an integer, as digits, for a finite
\* nonzero v with digits below 10^p (v.e < p).  v.d has no trailing zero, so
\* the dropped digits are exactly one half only when a single 5 is dropped.
RoundDigits(v, p) ==
    LET drop == p - v.e
        keep == IF drop >= Len(v.d) THEN << >>
                ELSE SubSeq(v.d, 1, Len(v.d) - drop)
        first == DigitAt(v, p - 1)
        odd == keep # << >> /\ keep[Len(keep)] % 2 = 1
        up == /\ drop <= Len(v.d)
              /\ \/ first > 5
                 \/ first = 5 /\ (drop > 1 \/ odd)
    IN  IF up THEN AddOne(keep) ELSE keep

\* f64::round_ties_even
RoundTiesEven(v) ==
    IF v.k # "fin" \/ v.e >= 0 THEN v
    ELSE Fin(v.neg, RoundDigits(v, 0), 0)

\* f64::powi(10.0, n): by repeated squaring of 10, and 1 / 10^|n| for n < 0,
\* so that the result is 0 as soon as 10^|n| is infinite
Powi10(n) ==
    IF n > F64_MAX_10_EXP THEN PosInf
    ELSE IF n < -F64_MAX_10_EXP THEN Zero(FALSE)
    ELSE [k |-> "fin", neg |-> FALSE, d |-> <<1>>, e |-> n]

\* a * b where b is 0, a power of ten or infinite; nn is the sign bit of a NaN
\* that the operation produces (IEEE 754 leaves it to the platform)
MulP10(a, b, nn) ==
    LET sgn == (a.neg # b.neg)
    IN  IF a.k = "nan" THEN a
        ELSE IF b.k = "nan" THEN b
        ELSE IF a.k = "inf" \/ b.k = "inf"
             THEN IF IsZero(a) \/ IsZero(b) THEN NaN(nn)
                  ELSE [k |-> "inf", neg |-> sgn, d |-> << >>, e |-> 0]
        ELSE IF IsZero(a) \/ IsZero(b) THEN Zero(sgn)
        ELSE Fin(sgn, a.d, a.e + b.e)

\* a / b where b is 0, a power of ten, infinite or NaN
DivP10(a, b, nn) ==
    LET sgn == (a.neg # b.neg)
    IN  IF a.k = "nan" THEN a
        ELSE IF b.k = "nan" THEN b
        ELSE IF a.k = "inf"
             THEN IF b.k = "inf" THEN NaN(nn)
                  ELSE [k |-> "inf", neg |-> sgn, d |-> << >>, e |-> 0]
        ELSE IF b.k = "inf" THEN Zero(sgn)
        ELSE IF IsZero(b)
             THEN IF IsZero(a) THEN NaN(nn)
                  ELSE [k |-> "inf", neg |-> sgn, d |-> << >>, e |-> 0]
        ELSE IF IsZero(a) THEN Zero(sgn)
        ELSE Fin(sgn, a.d, a.e - b.e)

\* v / 2 and v * 2 for a finite v, exactly
Halve(v) == Fin(v.neg, HalfDigits(v.d), v.e - 1)
Double(v) == Fin(v.neg, TwiceDigits(v.d), v.e)

\* v / 2^n and v * 2^n, by halves of n (each half is computed before the next)
RECURSIVE HalvePow(_, _)
HalvePow(v, n) ==
    IF n <= 0 THEN v
    ELSE IF n = 1 THEN Halve(v)
    ELSE LET w == HalvePow(v, n \div 2)
         IN  IF w.k = "fin" THEN HalvePow(w, n - (n \div 2)) ELSE w

RECURSIVE DoublePow(_, _)
DoublePow(v, n) ==
    IF n <= 0 THEN v
    ELSE IF n = 1 THEN Double(v)
    ELSE LET w == DoublePow(v, n \div 2)
         IN  IF w.k = "fin" THEN DoublePow(w, n - (n \div 2)) ELSE w

Div1024(v) == HalvePow(v, 10)
Mul1024(v) == DoublePow(v, 10)
Div1024Pow(v, n) == HalvePow(v, 10 * n)

\* the digits of 2^(10 n)
Pow1024(n) == DoublePow([k |-> "fin", neg |-> FALSE, d |-> <<1>>, e |-> 0], 10 * n).d

\* [e |-> floor(log2(v)), m |-> v / 2^e] for a finite v > 0, found by scaling
\* q = v / 2^n into [1, 2)
RECURSIVE Log2Scale(_, _)
Log2Scale(q, n) ==
    LET w == IF Log10Floor(q) >= 4 THEN Div1024(q)
             ELSE IF Log10Floor(q) <= -5 THEN Mul1024(q)
             ELSE IF Log10Floor(q) >= 1 \/ (Log10Floor(q) = 0 /\ q.d[1] >= 2)
                  THEN Halve(q)
             ELSE IF Log10Floor(q) < 0 THEN Double(q)
             ELSE q
        m == IF Log10Floor(q) >= 4 THEN n + 10
             ELSE IF Log10Floor(q) <= -5 THEN n - 10
             ELSE IF Log10Floor(q) >= 1 \/ (Log10Floor(q) = 0 /\ q.d[1] >= 2)
                  THEN n + 1
             ELSE IF Log10Floor(q) < 0 THEN n - 1
             ELSE n
    IN  IF w = q THEN [e |-> n, m |-> q] ELSE Log2Scale(w, m)

\* an integer as an f64
IntVal(n) == IF n < 0 THEN Fin(TRUE, DigitsOf(-n), 0) ELSE Fin(FALSE, DigitsOf(n), 0)

\* floor(v.log10()) and floor(v.log2()) as f64: -inf at zero, NaN below zero
LogFloor(v, base, nn) ==
    IF v.k = "nan" THEN v
    ELSE IF IsZero(v) THEN NegInf
    ELSE IF v.neg THEN NaN(nn)
    ELSE IF v.k = "inf" THEN PosInf
    ELSE IF base = 2 THEN IntVal(Log2Scale(v, 0).e)
    ELSE IntVal(Log10Floor(v))

\* `f as i16` for an integer-valued f64: saturating, NaN to 0
RECURSIVE DigitsToInt(_)
DigitsToInt(d) == IF d = << >> THEN 0 ELSE 10 * DigitsToInt(SubSeq(d, 1, Len(d) - 1)) + d[Len(d)]

AsI16(v) ==
    IF v.k = "nan" THEN 0
    ELSE IF v.k = "inf" THEN (IF v.neg THEN I16_MIN ELSE I16_MAX)
    ELSE IF IsZero(v) THEN 0
    ELSE IF Log10Floor(v) >= 5 THEN (IF v.neg THEN I16_MIN ELSE I16_MAX)
    ELSE LET n == DigitsToInt(v.d \o Zeros(v.e))
         IN  IF v.neg THEN Max(-n, I16_MIN) ELSE Min(n, I16_MAX)

--------------------------------------------------------------------------
(* i16 arithmetic: an overflow panics when the build has overflow checks (the
   debug profile) and wraps otherwise (the release profile) *)

Panic == [k |-> "panic", neg |-> FALSE, d |-> << >>, e |-> 0]

InI16(n) == I16_MIN <= n /\ n <= I16_MAX
WrapI16(n) == ((n - I16_MIN) % (2 * (I16_MAX + 1))) + I16_MIN

--------------------------------------------------------------------------
(* src/src/round.rs *)

\* round_mag without the multiplication back by 10^magnitude
round_mag_NotScaledBack(self, magnitude, oc, nn) ==
    IF IsZero(self) THEN Zero(FALSE)
    ELSE IF ~InI16(-magnitude) /\ oc THEN Panic
    ELSE RoundTiesEven(MulP10(self, Powi10(WrapI16(-magnitude)), nn))

\* Round::round_mag for f64.  oc: the build has overflow checks.
round_mag(self, magnitude, oc, nn) ==
    IF IsZero(self) THEN Zero(FALSE)
    ELSE IF ~InI16(-magnitude) /\ oc THEN Panic
    ELSE LET scaled == MulP10(self, Powi10(WrapI16(-magnitude)), nn)
         IN  MulP10(RoundTiesEven(scaled), Powi10(magnitude), nn)

\* round_sig without the rule for zero significants
round_sig_WithoutZeroRule(self, significants, oc, nn) ==
    IF IsZero(self) THEN Zero(FALSE)
    ELSE LET magnitude == AsI16(LogFloor(Abs(self), 10, nn))
         IN  round_mag(self, magnitude - significants + 1, oc, nn)

\* Round::round_sig for f64
round_sig(self, significants, oc, nn) ==
    IF IsZero(self) \/ significants = 0 THEN Zero(FALSE)
    ELSE LET magnitude == AsI16(LogFloor(Abs(self), 10, nn))
         IN  round_mag(self, magnitude - significants + 1, oc, nn)

--------------------------------------------------------------------------
(* Strings as UTF-8 byte sequences *)

DigitChars == <<"0", "1", "2", "3", "4", "5", "6", "7", "8", "9">>
IsDigit(c) == c \in {"0", "1", "2", "3", "4", "5", "6", "7", "8", "9"}
\* a UTF-8 continuation byte (the second byte of the micro sign, the second and
\* third of the infinity sign)
IsContinuation(c) == c \in {"B5", "88", "9E"}

DigitStr(d) == [i \in 1..Len(d) |-> DigitChars[d[i] + 1]]

\* FmtFixed with trailing fractional zeros and a bare "." removed
FmtFixed_TrailingZerosTrimmed(v, dec) ==
    IF v.k = "nan" THEN <<"N", "a", "N">>
    ELSE IF v.k = "inf"
         THEN (IF v.neg THEN <<"-">> ELSE << >>) \o <<"i", "n", "f">>
    ELSE LET n == IF IsZero(v) THEN << >>
                  ELSE IF v.e >= -dec THEN v.d \o Zeros(v.e + dec)
                  ELSE RoundDigits(v, -dec)
             p == Zeros(Max(0, dec + 1 - Len(n))) \o n
             int == SubSeq(p, 1, Len(p) - dec)
             frac == SubSeq(p, Len(p) - dec + 1, Len(p))
             kept == SubSeq(frac, 1, Len(frac) - TrailZeros(frac))
         IN  (IF v.neg THEN <<"-">> ELSE << >>)
             \o DigitStr(int)
             \o (IF kept # << >> THEN <<".">> \o DigitStr(kept) ELSE << >>)

\* format!("{:.*}", dec_places, v): fixed notation, the exact value rounded
\* half to even at the last place, the sign bit shown also for a zero
FmtFixed(v, dec) ==
    IF v.k = "nan" THEN <<"N", "a", "N">>
    ELSE IF v.k = "inf"
         THEN (IF v.neg THEN <<"-">> ELSE << >>) \o <<"i", "n", "f">>
    ELSE LET n == IF IsZero(v) THEN << >>
                  ELSE IF v.e >= -dec THEN v.d \o Zeros(v.e + dec)
                  ELSE RoundDigits(v, -dec)
             p == Zeros(Max(0, dec + 1 - Len(n))) \o n
             int == SubSeq(p, 1, Len(p) - dec)
             frac == SubSeq(p, Len(p) - dec + 1, Len(p))
         IN  (IF v.neg THEN <<"-">> ELSE << >>)
             \o DigitStr(int)
             \o (IF dec > 0 THEN <<".">> \o DigitStr(frac) ELSE << >>)

\* format!("{}", v) for an integer-valued f64 (a floored logarithm)
FmtDisplay(v) == FmtFixed(v, 0)

\* str::find: the byte offset of the first occurrence of pat in t, -1 if none
Find(t, pat) ==
    LET hits == {i \in 0..(Len(t) - Len(pat)) : SubSeq(t, i + 1, i + Len(pat)) = pat}
    IN  IF hits = {} THEN -1 ELSE CHOOSE i \in hits : \A j \in hits : i <= j

\* str::replace: every non-overlapping occurrence of from, left to right
RECURSIVE Replace(_, _, _)
Replace(t, from, to) ==
    LET i == Find(t, from)
    IN  IF i < 0 THEN t
        ELSE SubSeq(t, 1, i) \o to
             \o Replace(SubSeq(t, i + Len(from) + 1, Len(t)), from, to)

\* s.chars().position(|c| c.is_digit(10)): the number of characters before
\* the first digit, -1 if there is no digit
FirstDigitCharPos(t) ==
    IF \A i \in 1..Len(t) : ~IsDigit(t[i]) THEN -1
    ELSE LET j == CHOOSE i \in 1..Len(t) :
                     IsDigit(t[i]) /\ \A h \in 1..(i - 1) : ~IsDigit(t[h])
         IN  Cardinality({h \in 1..(j - 1) : ~IsContinuation(t[h])})

\* s.chars().rev().position(|c| c.is_digit(10)): the number of characters
\* after the last digit, -1 if there is no digit
LastDigitRevCharPos(t) ==
    IF \A i \in 1..Len(t) : ~IsDigit(t[i]) THEN -1
    ELSE LET j == CHOOSE i \in 1..Len(t) :
                     IsDigit(t[i]) /\ \A h \in (i + 1)..Len(t) : ~IsDigit(t[h])
         IN  Cardinality({h \in (j + 1)..Len(t) : ~IsContinuation(t[h])})

\* String::insert_str(i, ins); it panics when byte offset i is not a
\* character boundary
Panicked == <<"panic">>

InsertStr(t, i, ins) ==
    IF i > Len(t) \/ (i < Len(t) /\ IsContinuation(t[i + 1])) THEN Panicked
    ELSE SubSeq(t, 1, i) \o ins \o SubSeq(t, i + 1, Len(t))

--------------------------------------------------------------------------
(* src/src/format.rs: Formatter::format.  A formatter f is the record of the
   five fields of the struct Formatter; rounding is [mode, precision], scaling
   is [mode, whitespace_separation]. *)

INFINITY_SIGN == <<"E2", "88", "9E">>
MICRO_SIGN == <<"C2", "B5">>

\* [lower bound magnitude; upper bound magnitude[, unit prefix
BINARY_PREFIXES ==
    << <<0, 10, << >> >>, <<10, 20, <<"K", "i">> >>, <<20, 30, <<"M", "i">> >>,
       <<30, 40, <<"G", "i">> >>, <<40, 50, <<"T", "i">> >>,
       <<50, 60, <<"P", "i">> >>, <<60, 70, <<"E", "i">> >>,
       <<70, 80, <<"Z", "i">> >>, <<80, 90, <<"Y", "i">> >> >>

DECIMAL_PREFIXES ==
    << <<-30, -27, <<"q">> >>, <<-27, -24, <<"r">> >>, <<-24, -21, <<"y">> >>,
       <<-21, -18, <<"z">> >>, <<-18, -15, <<"a">> >>, <<-15, -12, <<"f">> >>,
       <<-12, -9, <<"p">> >>, <<-9, -6, <<"n">> >>, <<-6, -3, MICRO_SIGN>>,
       <<-3, 0, <<"m">> >>, <<0, 3, << >> >>, <<3, 6, <<"k">> >>,
       <<6, 9, <<"M">> >>, <<9, 12, <<"G">> >>, <<12, 15, <<"T">> >>,
       <<15, 18, <<"P">> >>, <<18, 21, <<"E">> >>, <<21, 24, <<"Z">> >>,
       <<24, 27, <<"Y">> >>, <<27, 30, <<"R">> >>, <<30, 33, <<"Q">> >> >>

GROUP_SEPARATOR_MARKER ==
    <<"{", "G", "R", "O", "U", "P", " ", "S", "E", "P", "A", "R", "A", "T",
      "O", "R", "}">>

\* the edge cases returned before anything else: the formatter is not read
SpecialValue(v) ==
    IF v.k = "inf" /\ ~v.neg THEN INFINITY_SIGN
    ELSE IF v.k = "inf" /\ v.neg THEN <<"-">> \o INFINITY_SIGN
    ELSE <<"N", "a", "N">>

\* x after `x = match self.rounding {...}`
Rounded(f, v, oc, nn) ==
    IF f.rounding.mode = "Magnitude"
    THEN round_mag(v, f.rounding.precision, oc, nn)
    ELSE round_sig(v, f.rounding.precision, oc, nn)

ScalingBase(f) == IF f.scaling.mode = "Binary" THEN 2 ELSE 10

\* `magnitude`, of the rounded value xr.  The code keeps the logarithm as an
\* f64; the model keeps its floor (an integer-valued f64, or inf or NaN): the
\* bounds of the prefix tables are integers, so lower <= magnitude < upper
\* reads the floor only, and the powers 2^(magnitude mod 10) and
\* 2^(magnitude - magnitude mod 10) are taken from xr itself (below).
Magnitude(f, xr, nn) ==
    IF IsZero(xr) THEN IntVal(0)
    ELSE LogFloor(Abs(xr), ScalingBase(f), nn)

\* FindPrefix with the bounds of a bucket read as ]lower; upper]
FindPrefix_UpperInclusive(table, magnitude) ==
    IF magnitude.k # "fin" THEN 0
    ELSE LET fl == AsI16(magnitude)
             hit == {i \in 1..Len(table) : table[i][1] < fl /\ fl <= table[i][2]}
         IN  IF hit = {} THEN 0 ELSE CHOOSE i \in hit : \A j \in hit : i <= j

\* PREFIXES.iter().find(|(lower, upper, _)| lower <= magnitude < upper): the
\* index of the bucket, 0 for None
FindPrefix(table, magnitude) ==
    IF magnitude.k # "fin" THEN 0
    ELSE LET fl == AsI16(magnitude)
             hit == {i \in 1..Len(table) : table[i][1] <= fl /\ fl < table[i][2]}
         IN  IF hit = {} THEN 0 ELSE CHOOSE i \in hit : \A j \in hit : i <= j

PrefixTable(f) == IF f.scaling.mode = "Binary" THEN BINARY_PREFIXES ELSE DECIMAL_PREFIXES

\* 2^(magnitude - magnitude.rem_euclid(10)): the power of 1024 at or below |xr|
BinaryDivisor(magnitude) == Fin(FALSE, Pow1024(AsI16(magnitude) \div 10), 0)

\* 2^(magnitude.rem_euclid(10)): |xr| over the power of 1024 at or below it
BinaryRemainder(xr, magnitude) ==
    IF IsZero(xr) THEN IntVal(1)
    ELSE Div1024Pow(Abs(xr), AsI16(magnitude) \div 10)

\* 10.0_f64.powf(n) for an integer n
Powf10(n) ==
    IF n > F64_MAX_10_EXP THEN PosInf
    ELSE IF n < F64_MIN_10_EXP THEN Zero(FALSE)
    ELSE [k |-> "fin", neg |-> FALSE, d |-> <<1>>, e |-> n]

\* 10^(magnitude - magnitude.rem_euclid(3)): the power of 1000 at or below |xr|
DecimalDivisor(magnitude) == Powf10(3 * (AsI16(magnitude) \div 3))

\* an i16 operation that overflowed under overflow checks
PanicI16 == I16_MAX + 1
CheckI16(n, oc) == IF ~InI16(n) /\ oc THEN PanicI16 ELSE WrapI16(n)
Sub16(a, b, oc) == IF a = PanicI16 \/ b = PanicI16 THEN PanicI16 ELSE CheckI16(a - b, oc)
Add16(a, b, oc) == IF a = PanicI16 \/ b = PanicI16 THEN PanicI16 ELSE CheckI16(a + b, oc)
Mul16(a, b, oc) == IF a = PanicI16 \/ b = PanicI16 THEN PanicI16 ELSE CheckI16(a * b, oc)

\* `dec_places = match (&self.scaling, &self.rounding) {...}`, before the clamp
DecPlaces(f, xr, magnitude, oc) ==
    LET precision == f.rounding.precision
        mode == f.scaling.mode
        byMagnitude == f.rounding.mode = "Magnitude"
        found == FindPrefix(PrefixTable(f), magnitude) # 0
    IN  IF mode = "Binary" /\ byMagnitude
        THEN IF found
             THEN Sub16(Sub16(Log10Floor(BinaryDivisor(magnitude)), precision, oc), 1, oc)
             ELSE AsI16(magnitude)
        ELSE IF mode = "Binary"
        THEN IF found
             THEN Sub16(Add16(Mul16(-1, Log10Floor(BinaryRemainder(xr, magnitude)), oc),
                              precision, oc), 1, oc)
             ELSE Sub16(precision, 1, oc)
        ELSE IF mode = "Decimal" /\ byMagnitude
        THEN IF found
             THEN Sub16(3 * (AsI16(magnitude) \div 3), precision, oc)
             ELSE AsI16(magnitude)
        ELSE IF mode = "Decimal"
        THEN IF found
             THEN Sub16(Add16(Mul16(-1, AsI16(magnitude) % 3, oc), precision, oc), 1, oc)
             ELSE Sub16(precision, 1, oc)
        ELSE IF mode = "None" /\ byMagnitude
        THEN Mul16(-1, precision, oc)
        ELSE IF mode = "None"
        THEN Sub16(Add16(Mul16(-1, AsI16(magnitude), oc), precision, oc), 1, oc)
        ELSE IF byMagnitude
        THEN AsI16(magnitude)
        ELSE Sub16(precision, 1, oc)

\* "<x / base^floor(log(x))> * <base>^(<floor(log(x))>)": the logarithm is taken
\* of xr itself, not of its absolute value
Scientific(xr, dec, base, nn) ==
    LET exponent == LogFloor(xr, base, nn)
        mantissa == IF exponent.k # "fin" THEN NaN(nn)
                    ELSE IF base = 2 THEN Log2Scale(xr, 0).m
                    ELSE DivP10(xr, Powf10(AsI16(exponent)), nn)
    IN  FmtFixed(mantissa, dec) \o <<" ", "*", " ">>
        \o (IF base = 2 THEN <<"2">> ELSE <<"1", "0">>)
        \o <<"^", "(">> \o FmtDisplay(exponent) \o <<")">>

\* trim_end left out
TrimEnd_Nothing(t) == t

\* str::trim_end
RECURSIVE TrimEnd(_)
TrimEnd(t) ==
    IF t # << >> /\ t[Len(t)] = " " THEN TrimEnd(SubSeq(t, 1, Len(t) - 1)) ELSE t

\* `match self.scaling {...}`: f64 -> String with the unit prefix appended
Render(f, xr, magnitude, dec, nn) ==
    LET mode == f.scaling.mode
        i == FindPrefix(PrefixTable(f), magnitude)
        quotient == IF mode = "Binary"
                    THEN Div1024Pow(xr, AsI16(magnitude) \div 10)
                    ELSE DivP10(xr, DecimalDivisor(magnitude), nn)
    IN  IF mode = "None" THEN FmtFixed(xr, dec)
        ELSE IF mode = "Scientific" THEN Scientific(xr, dec, 10, nn)
        ELSE IF i = 0 THEN Scientific(xr, dec, ScalingBase(f), nn)
        ELSE TrimEnd(FmtFixed(quotient, dec)
                     \o (IF f.scaling.whitespace_separation THEN <<" ">> ELSE << >>)
                     \o PrefixTable(f)[i][3])

\* `if self.sign == Sign::Always && x.is_sign_positive()`
ApplySign(f, xr, t) ==
    IF f.sign = "Always" /\ ~xr.neg THEN <<"+">> \o t ELSE t

\* `while group_separator_i_earliest + 3 <= i`
RECURSIVE InsertMarkers(_, _, _)
InsertMarkers(t, i, earliest) ==
    IF t = Panicked \/ earliest + 3 > i THEN t
    ELSE InsertMarkers(InsertStr(t, i - 3, GROUP_SEPARATOR_MARKER), i - 3, earliest)

\* `if self.group_separator != "" {...}`: the thousands separator markers
GroupMarkers(f, t) ==
    IF f.group_separator = << >> THEN t
    ELSE IF FirstDigitCharPos(t) < 0 THEN Panicked
    ELSE LET earliest == FirstDigitCharPos(t) + 1
             dot == Find(t, <<".">>)
             i == IF dot >= 0 THEN dot ELSE Len(t) - LastDigitRevCharPos(t)
         IN  InsertMarkers(t, i, earliest)

\* Separators with the group separator marker replaced first
Separators_GroupFirst(f, t) ==
    IF t = Panicked THEN Panicked
    ELSE Replace(Replace(t, GROUP_SEPARATOR_MARKER, f.group_separator),
                 <<".">>, f.decimal_separator)

\* Separators with both replacements skipped when the group separator is empty
Separators_SkippedWithoutGroup(f, t) ==
    IF t = Panicked THEN Panicked
    ELSE IF f.group_separator = << >> THEN t
    ELSE Replace(Replace(t, <<".">>, f.decimal_separator),
                 GROUP_SEPARATOR_MARKER, f.group_separator)

\* the two trailing `s.replace(...)`: the decimal separator first
Separators(f, t) ==
    IF t = Panicked THEN Panicked
    ELSE Replace(Replace(t, <<".">>, f.decimal_separator),
                 GROUP_SEPARATOR_MARKER, f.group_separator)

\* format with the edge cases sent through the sign and separator steps
format_SpecialThroughSign(f, v, oc, nn) ==
    IF v.k # "fin" THEN Separators(f, ApplySign(f, v, SpecialValue(v)))
    ELSE LET xr == Rounded(f, v, oc, nn)
             magnitude == Magnitude(f, xr, nn)
             dec_places == DecPlaces(f, xr, magnitude, oc)
         IN  IF xr = Panic \/ dec_places = PanicI16 THEN Panicked
             ELSE Separators(f,
                    GroupMarkers(f,
                      ApplySign(f, xr,
                        Render(f, xr, magnitude, Max(dec_places, 0), nn))))

\* format with the magnitude taken of the value before it is rounded
format_MagnitudeOfRaw(f, v, oc, nn) ==
    IF v.k # "fin" THEN SpecialValue(v)
    ELSE LET xr == Rounded(f, v, oc, nn)
             magnitude == Magnitude(f, v, nn)
             dec_places == DecPlaces(f, xr, magnitude, oc)
         IN  IF xr = Panic \/ dec_places = PanicI16 THEN Panicked
             ELSE Separators(f,
                    GroupMarkers(f,
                      ApplySign(f, xr,
                        Render(f, xr, magnitude, Max(dec_places, 0), nn))))

\* Formatter::format: the returned String, or Panicked
format(f, v, oc, nn) ==
    IF v.k # "fin" THEN SpecialValue(v)
    ELSE LET xr == Rounded(f, v, oc, nn)
             magnitude == Magnitude(f, xr, nn)
             dec_places == DecPlaces(f, xr, magnitude, oc)
         IN  IF xr = Panic \/ dec_places = PanicI16 THEN Panicked
             ELSE Separators(f,
                    GroupMarkers(f,
                      ApplySign(f, xr,
                        Render(f, xr, magnitude, Max(dec_places, 0), nn))))

--------------------------------------------------------------------------
(* The configurations and the inputs that are explored *)

\* Rounding::Magnitude(p) for |p| <= MaxPrecision, i16::MIN and i16::MAX
MaxPrecision == 3
\* Rounding::SignificantDigits(n) for n <= MaxSignificants, and u8::MAX
MaxSignificants == 4
\* inputs 10^(3 k) for |k| <= MaxKilo: one per decimal prefix, and beyond
MaxKilo == 11
\* inputs 2^(10 k) for k <= MaxKibi: one per binary prefix, and beyond
MaxKibi == 9

RoundingMagnitude(p) == [mode |-> "Magnitude", precision |-> p]
SignificantDigits(n) == [mode |-> "SignificantDigits", precision |-> n]
Binary(ws) == [mode |-> "Binary", whitespace_separation |-> ws]
Decimal(ws) == [mode |-> "Decimal", whitespace_separation |-> ws]
ScalingNone == [mode |-> "None", whitespace_separation |-> FALSE]
ScalingScientific == [mode |-> "Scientific", whitespace_separation |-> FALSE]

Roundings ==
    {RoundingMagnitude(p) : p \in (-MaxPrecision..MaxPrecision) \cup {I16_MIN, I16_MAX}}
    \cup {SignificantDigits(n) : n \in (0..MaxSignificants) \cup {U8_MAX}}
Scalings == {Binary(TRUE), Binary(FALSE), Decimal(TRUE), Decimal(FALSE),
             ScalingNone, ScalingScientific}
Signs == {"Always", "OnlyMinus"}
\* (group separator, decimal separator): the default pair, the swapped pair,
\* no grouping, and the two separators alike
SeparatorPairs == {<< <<".">>, <<",">> >>, << <<",">>, <<".">> >>,
                   << << >>, <<",">> >>, << <<",">>, <<",">> >>}

\* decimal literals: Num(d, e) is d * 10^e
Num(d, e) == Fin(FALSE, d, e)

\* the arguments of format calls: the special values, both zeros, values inside
\* and at the edges of prefix buckets, ties, and values outside every bucket
Inputs ==
    {Zero(FALSE), Zero(TRUE), PosInf, NegInf, NaN(FALSE), NaN(TRUE)}
    \cup {Num(<<1>>, 0), Num(<<1>>, -1), Num(<<9>>, -1), Num(<<5>>, -1),
          Num(<<2, 5>>, -1), Num(<<9, 9, 9, 9, 7>>, -2), Num(<<1>>, 3),
          Num(<<1, 0, 2, 3>>, 0), Num(<<1, 0, 2, 4>>, 0), Num(<<1>>, 4),
          Num(<<1, 2, 3, 4, 5, 6>>, 0), Num(<<1, 2, 3, 4, 5, 6>>, -3),
          Num(<<1, 2, 3>>, -6), Num(<<1, 2, 3>>, -2), Num(<<1>>, 10),
          Num(<<1>>, -31), Num(<<1>>, 33), Num(<<9, 9, 9, 9, 6>>, 28)}
    \cup {Neg(Num(<<1>>, 0)), Neg(Num(<<4>>, -1)), Neg(Num(<<1>>, 3)),
          Neg(Num(<<1>>, 33)), Neg(Num(<<9, 9, 9, 9, 7>>, -2))}

\* more arguments for the scaling rules: every power of 1000 and of 1024 with a
\* prefix and the next ones beyond, and values around them
SweepInputs ==
    Inputs
    \cup {Num(<<1>>, 3 * k) : k \in -MaxKilo..MaxKilo}
    \cup {Fin(FALSE, Pow1024(k), 0) : k \in 0..MaxKibi}
    \cup {Neg(Fin(FALSE, Pow1024(k), 0)) : k \in {1, MaxKibi}}
    \cup {Num(<<2>>, 0), Num(<<1>>, 1), Num(<<6, 4>>, 0), Num(<<1>>, 2),
          Num(<<1, 2, 8>>, 0), Num(<<9, 9, 9>>, 0), Num(<<1, 5>>, 2),
          Num(<<4, 2, 0, 6, 9>>, 0), Num(<<1, 2, 3>>, -3), Num(<<7, 8, 9>>, -3),
          Num(<<1>>, -10), Num(<<9, 7, 6, 5, 6, 2, 5>>, -10),
          Num(<<1, 0, 4, 7, 5, 5, 2>>, 0), Num(<<9, 9, 9, 9, 7>>, -32),
          Neg(Num(<<5>>, -1)), Neg(Num(<<1>>, -31))}

--------------------------------------------------------------------------
(* The state machine: a Formatter value (src/src/lib.rs), configured by its
   setters and used by format calls.  pc = "returned" right after a format call,
   with its argument in x and the returned String (or Panicked) in s.  The
   rounding step of format is also run on its own: pc = "rounded" right after
   x.round_mag(p) or x.round_sig(n), as self.rounding selects them, with the
   argument in x and the result (or Panic) in x_rounded. *)

Formatter ==
    [decimal_separator |-> decimal_separator, group_separator |-> group_separator,
     rounding |-> rounding, scaling |-> scaling, sign |-> sign]

NoArgument == Zero(FALSE)
NoString == << >>

\* Formatter::new(), under either build profile
Init ==
    /\ decimal_separator = <<",">>
    /\ group_separator = <<".">>
    /\ rounding = SignificantDigits(4)
    /\ scaling = Decimal(TRUE)
    /\ sign = "OnlyMinus"
    /\ overflow_checks \in BOOLEAN
    /\ pc = "idle"
    /\ x = NoArgument
    /\ s = NoString
    /\ x_rounded = NoArgument

set_rounding ==
    /\ pc = "idle"
    /\ \E r \in Roundings : rounding' = r
    /\ UNCHANGED <<decimal_separator, group_separator, scaling, sign,
                   overflow_checks, pc, x, s, x_rounded>>

set_scaling ==
    /\ pc = "idle"
    /\ \E sc \in Scalings : scaling' = sc
    /\ UNCHANGED <<decimal_separator, group_separator, rounding, sign,
                   overflow_checks, pc, x, s, x_rounded>>

set_separators ==
    /\ pc = "idle"
    /\ \E p \in SeparatorPairs :
          /\ group_separator' = p[1]
          /\ decimal_separator' = p[2]
    /\ UNCHANGED <<rounding, scaling, sign, overflow_checks, pc, x, s, x_rounded>>

set_sign ==
    /\ pc = "idle"
    /\ \E sg \in Signs : sign' = sg
    /\ UNCHANGED <<decimal_separator, group_separator, rounding, scaling,
                   overflow_checks, pc, x, s, x_rounded>>

\* The sign bit of a NaN that arithmetic produces is the platform's choice
\* (IEEE 754 does not fix it).  Only the NaN that rounding may produce has its
\* sign bit read (by the sign step), so the choice is made there alone.
NaNSigns(f, v, oc) ==
    IF v.k = "fin" /\ Rounded(f, v, oc, FALSE).k = "nan" THEN BOOLEAN ELSE {FALSE}

\* a call of format with an argument of the set args: the formatter is
\* borrowed, not changed
FormatCall(args) ==
    /\ pc = "idle"
    /\ \E v \in args :
          \E nn \in NaNSigns(Formatter, v, overflow_checks) :
             /\ x' = v
             /\ s' = format(Formatter, v, overflow_checks, nn)
    /\ pc' = "returned"
    /\ UNCHANGED <<decimal_separator, group_separator, rounding, scaling, sign,
                   overflow_checks, x_rounded>>

Format == FormatCall(Inputs)

FormatSweep == FormatCall(SweepInputs)

\* the caller is done with the returned String
Drop ==
    /\ pc = "returned"
    /\ pc' = "idle"
    /\ x' = NoArgument
    /\ s' = NoString
    /\ UNCHANGED <<decimal_separator, group_separator, rounding, scaling, sign,
                   overflow_checks, x_rounded>>

Next == set_rounding \/ set_scaling \/ set_separators \/ set_sign \/ Format \/ Drop

Spec == Init /\ [][Next]_vars

\* the formatter with the sign mode and the separators of Formatter::new(),
\* under every rounding and scaling, over the wider set of arguments
NextScaling == set_rounding \/ set_scaling \/ FormatSweep \/ Drop

SpecScaling == Init /\ [][NextScaling]_vars

\* the finite arguments of the rounding primitives: those of format and
\* values halfway between two multiples of a power of ten
RoundInputs ==
    {v \in SweepInputs : v.k = "fin"}
    \cup {Num(<<1, 5>>, -1), Num(<<3, 5>>, -1), Neg(Num(<<1, 5>>, -1)),
          Neg(Num(<<2, 5>>, -1)), Num(<<2, 5>>, -2), Num(<<3, 5>>, -2),
          Num(<<1, 5>>, 0), Num(<<2, 5>>, 0), Num(<<5>>, -4), Num(<<1, 5>>, -4),
          Num(<<4>>, -1), Num(<<6>>, -1), Num(<<4, 2, 0, 6, 9>>, -3),
          Neg(Num(<<1, 2, 3, 4, 5, 6>>, 0)), Neg(Num(<<1, 2, 3>>, -6))}

\* the sign bit of the NaN that rounding v may produce
RoundNaNSigns(v) ==
    IF Rounded(Formatter, v, overflow_checks, FALSE).k = "nan" THEN BOOLEAN ELSE {FALSE}

\* `match self.rounding {Magnitude(p) => x.round_mag(p),
\* SignificantDigits(p) => x.round_sig(p)}` on an argument of RoundInputs
Round ==
    /\ pc = "idle"
    /\ \E v \in RoundInputs : \E nn \in RoundNaNSigns(v) :
          /\ x' = v
          /\ x_rounded' = Rounded(Formatter, v, overflow_checks, nn)
    /\ pc' = "rounded"
    /\ UNCHANGED <<decimal_separator, group_separator, rounding, scaling, sign,
                   overflow_checks, s>>

\* the same rounding applied to the result of the last one
RoundAgain ==
    /\ pc = "rounded"
    /\ x_rounded # Panic
    /\ \E nn \in RoundNaNSigns(x_rounded) :
          /\ x' = x_rounded
          /\ x_rounded' = Rounded(Formatter, x_rounded, overflow_checks, nn)
    /\ pc' = "rounded again"
    /\ UNCHANGED <<decimal_separator, group_separator, rounding, scaling, sign,
                   overflow_checks, s>>

\* the caller is done with the rounded value
DropRounded ==
    /\ pc \in {"rounded", "rounded again"}
    /\ pc' = "idle"
    /\ x' = NoArgument
    /\ x_rounded' = NoArgument
    /\ UNCHANGED <<decimal_separator, group_separator, rounding, scaling, sign,
                   overflow_checks, s>>

\* the rounding primitives under every rounding of the model
NextRound == set_rounding \/ Round \/ RoundAgain \/ DropRounded

SpecRound == Init /\ [][NextRound]_vars
--------------------------------------------------------------------------
(* Properties *)

\* the formatter is the one Formatter::new() returns
IsDefault ==
    /\ decimal_separator = <<",">>
    /\ group_separator = <<".">>
    /\ rounding = SignificantDigits(4)
    /\ scaling = Decimal(TRUE)
    /\ sign = "OnlyMinus"

\* a format call of a finite argument has returned a String
ReturnedFinite == pc = "returned" /\ s # Panicked /\ x.k = "fin"

\* the rounded value of the argument of the last call
RoundedArgument == Rounded(Formatter, x, overflow_checks, FALSE)

\* |a| >= |b| for finite nonzero a and b, by their digits
AbsGE(a, b) ==
    \/ Log10Floor(a) > Log10Floor(b)
    \/ /\ Log10Floor(a) = Log10Floor(b)
       /\ LET n == Max(Len(a.d), Len(b.d))
              da == a.d \o Zeros(n - Len(a.d))
              db == b.d \o Zeros(n - Len(b.d))
          IN  \/ da = db
              \/ \E i \in 1..n : /\ da[i] > db[i]
                                 /\ \A j \in 1..(i - 1) : da[j] = db[j]

\* 10^lower <= |v| < 10^upper and 2^lower <= |v| < 2^upper (lower, upper
\* multiples of 10)
InDecimalBucket(v, lower, upper) ==
    AbsGE(v, Num(<<1>>, lower)) /\ ~AbsGE(v, Num(<<1>>, upper))
InBinaryBucket(v, lower, upper) ==
    /\ AbsGE(v, Fin(FALSE, Pow1024(lower \div 10), 0))
    /\ ~AbsGE(v, Fin(FALSE, Pow1024(upper \div 10), 0))

EndsWith(t, u) == Len(t) >= Len(u) /\ SubSeq(t, Len(t) - Len(u) + 1, Len(t)) = u

\* t is a number followed by the unit prefix sym (after a space when ws)
CarriesSymbol(t, sym, ws) ==
    LET u == IF sym = << >> THEN << >>
             ELSE (IF ws THEN <<" ">> ELSE << >>) \o sym
    IN  EndsWith(t, u) /\ Len(t) > Len(u) /\ IsDigit(t[Len(t) - Len(u)])

\* C1: under decimal scaling the unit prefix of the output is the one of the
\* bucket that contains the ROUNDED value, also when the value before rounding
\* lies in the bucket below; with the default formatter format(999.97) is
\* "1,000 k" and format(0.1) is "100,0 m".
C1_PrefixOfRoundedValue ==
    (ReturnedFinite /\ scaling.mode = "Decimal") =>
        /\ RoundedArgument.k = "fin" /\ ~IsZero(RoundedArgument) =>
              \A i \in 1..Len(DECIMAL_PREFIXES) :
                  InDecimalBucket(RoundedArgument, DECIMAL_PREFIXES[i][1],
                                  DECIMAL_PREFIXES[i][2])
                  => CarriesSymbol(s, DECIMAL_PREFIXES[i][3],
                                   scaling.whitespace_separation)
        /\ IsDefault /\ x = Num(<<9, 9, 9, 9, 7>>, -2) =>
              s = <<"1", ",", "0", "0", "0", " ", "k">>
        /\ IsDefault /\ x = Num(<<1>>, -1) =>
              s = <<"1", "0", "0", ",", "0", " ", "m">>

\* C1 witness: 999.97 lies in the bucket without prefix, its rounded value 1000
\* in the bucket of "k", and "1,000 k" was returned
C1_Witness ==
    /\ ReturnedFinite /\ IsDefault
    /\ x = Num(<<9, 9, 9, 9, 7>>, -2)
    /\ InDecimalBucket(x, 0, 3)
    /\ InDecimalBucket(RoundedArgument, 3, 6)
    /\ s = <<"1", ",", "0", "0", "0", " ", "k">>

\* the output for a rounded value xr in the binary bucket of 2^lower under
\* Binary(true) and 4 significant digits: xr / 2^lower with 4 significant
\* digits, grouped, then the symbol
C2_Expected(xr, i) ==
    LET q == HalvePow(xr, BINARY_PREFIXES[i][1])
        number == FmtFixed(q, Max(0, 3 - Log10Floor(q)))
    IN  Separators(Formatter,
            GroupMarkers(Formatter,
                TrimEnd(number \o <<" ">> \o BINARY_PREFIXES[i][3])))

\* C2: with Binary(true) and the default rounding a rounded value v with
\* 2^(10k) <= |v| < 2^(10(k+1)), k in 0..8, is divided by 2^(10k) and gets the
\* k-th binary symbol; format(1023) = "1.023", format(1024) = "1,000 Ki" and
\* format(2^(10k)) = "1,000 <symbol k>" for k = 1..8.
C2_BinaryBuckets ==
    (/\ ReturnedFinite /\ scaling = Binary(TRUE) /\ rounding = SignificantDigits(4)
     /\ sign = "OnlyMinus" /\ group_separator = <<".">> /\ decimal_separator = <<",">>)
    =>  /\ RoundedArgument.k = "fin" /\ ~IsZero(RoundedArgument) =>
              \A i \in 1..Len(BINARY_PREFIXES) :
                  InBinaryBucket(RoundedArgument, BINARY_PREFIXES[i][1],
                                 BINARY_PREFIXES[i][2])
                  => /\ s = C2_Expected(RoundedArgument, i)
                     /\ CarriesSymbol(s, BINARY_PREFIXES[i][3], TRUE)
        /\ x = Num(<<1, 0, 2, 3>>, 0) => s = <<"1", ".", "0", "2", "3">>
        /\ x = Num(<<1, 0, 2, 4>>, 0) => s = <<"1", ",", "0", "0", "0", " ", "K", "i">>
        /\ \A i \in 2..Len(BINARY_PREFIXES) :
              x = Fin(FALSE, Pow1024(i - 1), 0) =>
                  s = <<"1", ",", "0", "0", "0", " ">> \o BINARY_PREFIXES[i][3]

\* C2 witness: 2^80, the lower edge of the last bucket, was returned as "1,000 Yi"
C2_Witness ==
    /\ ReturnedFinite /\ scaling = Binary(TRUE) /\ rounding = SignificantDigits(4)
    /\ x = Fin(FALSE, Pow1024(8), 0)
    /\ InBinaryBucket(RoundedArgument, 80, 90)
    /\ s = <<"1", ",", "0", "0", "0", " ", "Y", "i">>

DigitSet == {DigitChars[i] : i \in 1..Len(DigitChars)}

\* every character of t is one of cs, and t is not empty
MadeOf(t, cs) == t # << >> /\ \A i \in 1..Len(t) : t[i] \in cs

BaseText(base) == IF base = 2 THEN <<"2">> ELSE <<"1", "0">>

\* t reads "<mantissa> * <base>^(<e>)" with a decimal number as mantissa and
\* an integer as exponent
IsScientificForm(t, base, dec_sep) ==
    LET mid == <<" ", "*", " ">> \o BaseText(base) \o <<"^", "(">>
        at == Find(t, mid)
    IN  /\ at >= 1
        /\ t[Len(t)] = ")"
        /\ MadeOf(SubSeq(t, 1, at),
                  DigitSet \cup {"-", "+"} \cup {dec_sep[j] : j \in 1..Len(dec_sep)})
        /\ MadeOf(SubSeq(t, at + Len(mid) + 1, Len(t) - 1), DigitSet \cup {"-"})

\* the rounded value lies outside every bucket of the active prefix table
OutsidePrefixRange(v) ==
    IF scaling.mode = "Decimal" THEN ~InDecimalBucket(v, -30, 33)
    ELSE ~InBinaryBucket(v, 0, 90)

\* C3 (as claimed): under Decimal or Binary scaling a nonzero rounded value
\* outside the prefix range is never given a unit prefix; the output is the
\* fallback form "<mantissa> * 10^(<e>)", respectively "<mantissa> * 2^(<e>)".
C3_FallbackForm ==
    (/\ ReturnedFinite /\ scaling.mode \in {"Decimal", "Binary"}
     /\ RoundedArgument.k = "fin" /\ ~IsZero(RoundedArgument)
     /\ OutsidePrefixRange(RoundedArgument))
    => IsScientificForm(s, ScalingBase(Formatter), decimal_separator)

\* floor(log_base |v|) of a finite nonzero v, as an integer
ExponentOf(v, base) == AsI16(LogFloor(Abs(v), base, FALSE))

\* v / base^e, keeping the sign of v
MantissaOf(v, base) ==
    LET e == ExponentOf(v, base)
    IN  IF base = 2 THEN (IF e >= 0 THEN HalvePow(v, e) ELSE DoublePow(v, -e))
        ELSE Fin(v.neg, v.d, v.e - e)

\* the text that scientific notation is specified to give for a rounded value
\* shown with dec decimal places
ScientificText(v, base, dec) ==
    Replace(FmtFixed(MantissaOf(v, base), dec), <<".">>, decimal_separator)
    \o <<" ", "*", " ">> \o BaseText(base) \o <<"^", "(">>
    \o FmtDisplay(IntVal(ExponentOf(v, base))) \o <<")">>

\* C4 (as claimed): scientific notation takes its exponent from the absolute
\* value, e = floor(log10|x|), and the mantissa x / 10^e keeps the sign: with
\* Scaling::Scientific format(-1000) is "-1,000 * 10^(3)" and format(1000) is
\* "1,000 * 10^(3)"; the Binary fallback does the same in base 2.
C4_ScientificOfNegative ==
    /\ (/\ ReturnedFinite /\ sign = "OnlyMinus"
        /\ rounding.mode = "SignificantDigits" /\ rounding.precision >= 2
        /\ RoundedArgument.k = "fin" /\ ~IsZero(RoundedArgument)
        /\ \/ scaling.mode = "Scientific"
           \/ scaling.mode \in {"Decimal", "Binary"} /\ OutsidePrefixRange(RoundedArgument))
       => s = ScientificText(RoundedArgument, ScalingBase(Formatter),
                             rounding.precision - 1)
    /\ (ReturnedFinite /\ rounding = SignificantDigits(4) /\ sign = "OnlyMinus"
        /\ scaling = ScalingScientific /\ decimal_separator = <<",">>)
       => /\ x = Num(<<1>>, 3) =>
                s = <<"1", ",", "0", "0", "0", " ", "*", " ", "1", "0", "^", "(", "3", ")">>
          /\ x = Neg(Num(<<1>>, 3)) =>
                s = <<"-", "1", ",", "0", "0", "0", " ", "*", " ", "1", "0", "^", "(", "3", ")">>

\* the number of "+" in t
PlusCount(t) == Cardinality({i \in 1..Len(t) : t[i] = "+"})

\* C5 (as claimed): for a finite rounded value, Sign::Always gives an output
\* that starts with exactly one "+" when the sign bit is positive, zero
\* included, and one that starts with "-" and has no "+" when it is negative;
\* Sign::OnlyMinus never gives a "+" prefix. Default formatter otherwise:
\* format(0) = "+0,000" / "0,000", format(1) = "+1,000" / "1,000" and
\* format(-1) = "-1,000" in both modes.
C5_SignPolicy ==
    (ReturnedFinite /\ RoundedArgument.k = "fin") =>
        /\ sign = "Always" /\ ~RoundedArgument.neg =>
              s # << >> /\ s[1] = "+" /\ PlusCount(s) = 1
        /\ sign = "Always" /\ RoundedArgument.neg =>
              s # << >> /\ s[1] = "-" /\ PlusCount(s) = 0
        /\ sign = "OnlyMinus" => s # << >> /\ s[1] # "+"
        /\ (/\ rounding = SignificantDigits(4) /\ scaling = Decimal(TRUE)
            /\ group_separator = <<".">> /\ decimal_separator = <<",">>) =>
              /\ x = Zero(FALSE) =>
                    s = (IF sign = "Always" THEN <<"+">> ELSE << >>)
                        \o <<"0", ",", "0", "0", "0">>
              /\ x = Num(<<1>>, 0) =>
                    s = (IF sign = "Always" THEN <<"+">> ELSE << >>)
                        \o <<"1", ",", "0", "0", "0">>
              /\ x = Neg(Num(<<1>>, 0)) => s = <<"-", "1", ",", "0", "0", "0">>

\* C6 (as claimed): format(+infinity) is "+∞" under Sign::Always and "∞" under
\* Sign::OnlyMinus, whatever the rounding, scaling and separators.
C6_PositiveInfinitySigned ==
    (pc = "returned" /\ x = PosInf) =>
        s = (IF sign = "Always" THEN <<"+">> ELSE << >>) \o INFINITY_SIGN

\* C7: in every configuration format(-infinity) is "-∞", without a "+", and
\* format(NaN) is "NaN", without sign, prefix or separator.
C7_NegInfAndNaNShortCircuit ==
    pc = "returned" =>
        /\ x = NegInf => s = <<"-">> \o INFINITY_SIGN
        /\ x.k = "nan" => s = <<"N", "a", "N">>

\* C7 witness: "-∞" was returned by a formatter that would sign, scale, round
\* and separate differently from the default one
C7_Witness ==
    /\ pc = "returned" /\ x = NegInf /\ s = <<"-">> \o INFINITY_SIGN
    /\ sign = "Always" /\ scaling.mode = "Scientific"
    /\ rounding.mode = "Magnitude" /\ decimal_separator = <<".">>

\* every "." of t turned into "," and every "," into "."
SwapChars(t) ==
    [i \in 1..Len(t) |-> IF t[i] = "." THEN "," ELSE IF t[i] = "," THEN "." ELSE t[i]]

\* the formatter after set_separators(group, decimal)
WithSeparators(group, decimal) ==
    [Formatter EXCEPT !.group_separator = group, !.decimal_separator = decimal]

\* C8: for a finite value and any rounding, scaling and sign, the output with
\* separators (".", ",") and the one with (",", ".") have the same length and
\* differ exactly in that "." and "," change places; with Scaling::None 123456
\* gives "123.500" and "123,500", 0.9 gives "0,9000" and "0.9000".
C8_SeparatorSwap ==
    (ReturnedFinite /\ group_separator = <<".">> /\ decimal_separator = <<",">>) =>
        /\ \A nn \in NaNSigns(Formatter, x, overflow_checks) :
              s = format(Formatter, x, overflow_checks, nn) =>
                 LET t == format(WithSeparators(<<",">>, <<".">>), x, overflow_checks, nn)
                 IN  Len(t) = Len(s) /\ t = SwapChars(s)
        /\ (scaling = ScalingNone /\ rounding = SignificantDigits(4) /\ sign = "OnlyMinus") =>
              /\ x = Num(<<1, 2, 3, 4, 5, 6>>, 0) =>
                    /\ s = <<"1", "2", "3", ".", "5", "0", "0">>
                    /\ format(WithSeparators(<<",">>, <<".">>), x, overflow_checks, FALSE)
                          = <<"1", "2", "3", ",", "5", "0", "0">>
              /\ x = Num(<<9>>, -1) =>
                    /\ s = <<"0", ",", "9", "0", "0", "0">>
                    /\ format(WithSeparators(<<",">>, <<".">>), x, overflow_checks, FALSE)
                          = <<"0", ".", "9", "0", "0", "0">>

\* C8 witness: an output with both a group and a decimal separator
C8_Witness ==
    /\ ReturnedFinite /\ group_separator = <<".">> /\ decimal_separator = <<",">>
    /\ x = Num(<<1, 2, 3, 4, 5, 6>>, 0)
    /\ s = <<"1", "2", "3", ".", "4", "5", "6", ",", "0">>
    /\ format(WithSeparators(<<",">>, <<".">>), x, overflow_checks, FALSE)
          = <<"1", "2", "3", ",", "4", "5", "6", ".", "0">>

\* t without the occurrences of g
Delete(t, g) == Replace(t, g, << >>)

\* no character of g occurs in t
Disjoint(g, t) == \A i \in 1..Len(g) : \A j \in 1..Len(t) : g[i] # t[j]

\* the non-empty group separators compared with the empty one
GroupSeparators == {p[1] : p \in SeparatorPairs} \ {<< >>}

\* the outputs of the last call, had the group separator been g, with every g
\* deleted, for each sign of NaN under which s is the output
SameWithout(g) ==
    \A nn \in NaNSigns(Formatter, x, overflow_checks) :
        s = format(Formatter, x, overflow_checks, nn) =>
            Delete(format(WithSeparators(g, decimal_separator), x, overflow_checks, nn), g) = s

SameWithoutOrNoDigit(g) ==
    \A nn \in NaNSigns(Formatter, x, overflow_checks) :
        s = format(Formatter, x, overflow_checks, nn) =>
            LET t == format(WithSeparators(g, decimal_separator), x, overflow_checks, nn)
            IN  IF t = Panicked THEN \A i \in 1..Len(s) : ~IsDigit(s[i])
                ELSE Delete(t, g) = s

C10_FormatIsTotal == pc = "returned" => s # Panicked

\* the digits of t that follow the first decimal separator directly, none
\* when t has no decimal separator
FractionOf(t) ==
    LET at == Find(t, decimal_separator)
        first == at + Len(decimal_separator) + 1
        others == {j \in first..Len(t) : ~IsDigit(t[j])}
        last == IF others = {} THEN Len(t)
                ELSE (CHOOSE j \in others : \A h \in others : j <= h) - 1
    IN  IF at < 0 THEN << >> ELSE SubSeq(t, first, last)

\* t has a decimal separator with no digit after it
BareSeparator(t) == Find(t, decimal_separator) >= 0 /\ FractionOf(t) = << >>

\* the rounded value is shown in scientific form
InScientificForm(v) ==
    \/ scaling.mode = "Scientific"
    \/ scaling.mode \in {"Decimal", "Binary"} /\ ~IsZero(v) /\ OutsidePrefixRange(v)

\* the number that is rendered is finite: the rounded value is, and it is
\* not the mantissa of a negative or zero value in scientific form, which is
\* NaN
RenderedIsNumber ==
    /\ RoundedArgument.k = "fin"
    /\ ~(InScientificForm(RoundedArgument)
         /\ (RoundedArgument.neg \/ IsZero(RoundedArgument)))

\* the computed number of fractional digits, after the clamp
ComputedDecPlaces ==
    Max(0, DecPlaces(Formatter, RoundedArgument,
                     Magnitude(Formatter, RoundedArgument, FALSE), overflow_checks))

\* the decimal separator can be told from the group separator
SeparatorsDiffer == group_separator # decimal_separator

SameF64(a, b) == (IsZero(a) /\ IsZero(b)) \/ (a.k # "nan" /\ b.k # "nan" /\ a = b)

\* x.round_mag(m) has returned, x.round_sig(n) has returned
RoundedMag == pc = "rounded" /\ rounding.mode = "Magnitude"
RoundedSig == pc = "rounded" /\ rounding.mode = "SignificantDigits"

\* 10^(-m), 10^m and v * 10^(-m) are finite f64 values, the powers not zero
ScaledRepresentable(v, m) ==
    /\ InI16(-m)
    /\ Powi10(-m).k = "fin" /\ ~IsZero(Powi10(-m))
    /\ Powi10(m).k = "fin" /\ ~IsZero(Powi10(m))
    /\ v.k = "fin" /\ MulP10(v, Powi10(-m), FALSE).k = "fin"

\* the finite value v is an integer multiple of 10^m
IsMultipleOf10Pow(v, m) == IsZero(v) \/ v.e >= m

\* the results of 42.069.round_mag(m) that the documentation lists
DocumentedRoundMag(m) ==
    CASE m <= -3 -> Num(<<4, 2, 0, 6, 9>>, -3)
      [] m = -2 -> Num(<<4, 2, 0, 7>>, -2)
      [] m = -1 -> Num(<<4, 2, 1>>, -1)
      [] m = 0 -> Num(<<4, 2>>, 0)
      [] m = 1 -> Num(<<4>>, 1)
      [] OTHER -> Zero(FALSE)

\* C12: round_mag is idempotent wherever the scaled value is representable,
\* round_mag(round_mag(x, m), m) = round_mag(x, m), and its result is an
\* integer multiple of 10^m; 42.069 gives 42.069, 42.07, 42.1, 42, 40 and 0
\* for m = -3, ..., 2.
C12_RoundMagIdempotent ==
    /\ (/\ pc = "rounded again" /\ rounding.mode = "Magnitude"
        /\ ScaledRepresentable(x, rounding.precision))
       => SameF64(x_rounded, x)
    /\ (RoundedMag /\ ScaledRepresentable(x, rounding.precision))
       => /\ x_rounded.k = "fin"
          /\ IsMultipleOf10Pow(x_rounded, rounding.precision)
          /\ x = Num(<<4, 2, 0, 6, 9>>, -3) =>
                x_rounded = DocumentedRoundMag(rounding.precision)

\* C12 witness: 42.07, which is 42.069 rounded to hundredths, was rounded to
\* hundredths again
C12_Witness ==
    /\ pc = "rounded again" /\ rounding = RoundingMagnitude(-2)
    /\ x = Num(<<4, 2, 0, 7>>, -2)
    /\ x_rounded = Num(<<4, 2, 0, 7>>, -2)

\* C13: round_sig(x, 0) = 0 for every finite x, round_mag(0, m) = 0 for every
\* i16 m and round_sig(0, n) = 0 for every n, before any logarithm, power or
\* negation is evaluated (so i16::MIN does not overflow); format with
\* SignificantDigits(0) then gives "0" under Decimal(true) and under None.
C13_ZeroRules ==
    /\ (RoundedSig /\ rounding.precision = 0) => x_rounded = Zero(FALSE)
    /\ (pc = "rounded" /\ IsZero(x)) => x_rounded = Zero(FALSE)
    /\ (RoundedSig /\ rounding.precision = 0) =>
          \A sc \in {Decimal(TRUE), ScalingNone} :
              format([Formatter EXCEPT !.scaling = sc], x, overflow_checks, FALSE)
                 = <<"0">>

\* C13 witness: a negative value rounded to no significant digit is +0
C13_Witness ==
    /\ RoundedSig /\ rounding.precision = 0
    /\ x = Neg(Num(<<9, 9, 9, 9, 7>>, -2))
    /\ x_rounded = Zero(FALSE)
    /\ format(Formatter, x, overflow_checks, FALSE) = <<"0">>

\* 10^n as an integer, n >= 0
RECURSIVE Pow10Int(_)
Pow10Int(n) == IF n <= 0 THEN 1 ELSE 10 * Pow10Int(n - 1)

\* the number of decimal places that makes v and 10^m integers
PlacesFor(v, m) == Max(0, Max(-v.e, -m))

\* v and 10^m, scaled by 10^PlacesFor(v, m), are integers of at most 8 digits
Comparable(v, m) ==
    /\ v.k = "fin" /\ ~IsZero(v)
    /\ Len(v.d) + v.e + PlacesFor(v, m) <= 8
    /\ m + PlacesFor(v, m) <= 8

\* the finite value v * 10^p as an integer (its absolute value)
ScaledInt(v, p) == IF IsZero(v) THEN 0 ELSE DigitsToInt(v.d) * Pow10Int(v.e + p)

\* r is the multiple of 10^m nearest to v, the even multiple when v lies
\* halfway between two, and has the sign of v (checked on integers)
NearestTiesEven(v, r, m) ==
    LET p == PlacesFor(v, m)
        X == ScaledInt(v, p)
        R == ScaledInt(r, p)
        U == Pow10Int(m + p)
        distance == IF X >= R THEN X - R ELSE R - X
    IN  /\ r.k = "fin" /\ r.neg = v.neg
        /\ IsZero(r) \/ r.e + p >= 0
        /\ R % U = 0
        /\ 2 * distance <= U
        /\ 2 * distance = U => (R \div U) % 2 = 0

\* C14: round_mag rounds half to even: halfway between two multiples of 10^m
\* the result is the even one (round_mag(0.5, 0) = 0, round_mag(1.5, 0) = 2,
\* round_mag(2.5, 0) = 2), elsewhere the nearest one; and round_sig(x, n), for
\* x # 0 and n >= 1, is round_mag(x, floor(log10|x|) - n + 1).
C14_RoundHalfToEven ==
    /\ (RoundedMag /\ Comparable(x, rounding.precision)) =>
          NearestTiesEven(x, x_rounded, rounding.precision)
    /\ (RoundedMag /\ rounding.precision = 0) =>
          /\ x = Num(<<5>>, -1) => x_rounded = Zero(FALSE)
          /\ x = Num(<<1, 5>>, -1) => x_rounded = Num(<<2>>, 0)
          /\ x = Num(<<2, 5>>, -1) => x_rounded = Num(<<2>>, 0)
    /\ (RoundedSig /\ rounding.precision >= 1 /\ ~IsZero(x)) =>
          LET m == Log10Floor(x) - rounding.precision + 1
          IN  /\ x_rounded = round_mag(x, m, overflow_checks, FALSE)
              /\ Comparable(x, m) => NearestTiesEven(x, x_rounded, m)

\* C14 witness: 2.5 lies halfway between 2 and 3 and was rounded to 2
C14_Witness ==
    /\ RoundedMag /\ rounding.precision = 0
    /\ x = Num(<<2, 5>>, -1) /\ Comparable(x, 0)
    /\ x_rounded = Num(<<2>>, 0)

\* the "+" that Sign::Always puts before a value whose sign bit is positive
SignPrefix(v) == IF sign = "Always" /\ ~v.neg THEN <<"+">> ELSE << >>

\* C15 (as claimed): in scientific form with a mantissa without decimal point
\* the grouping is anchored at the " * " marker, so no group separator is put
\* into the " * <base>^(<e>)" suffix; with Scaling::Scientific and
\* SignificantDigits(1), format(1000) = "1 * 10^(3)".
C15_AnchorInScientificForm ==
    /\ (/\ ReturnedFinite /\ RoundedArgument.k = "fin"
        /\ ~IsZero(RoundedArgument) /\ ~RoundedArgument.neg
        /\ InScientificForm(RoundedArgument) /\ ComputedDecPlaces = 0)
       => s = SignPrefix(RoundedArgument)
              \o ScientificText(RoundedArgument, ScalingBase(Formatter), 0)
    /\ (/\ ReturnedFinite /\ scaling = ScalingScientific
        /\ rounding = SignificantDigits(1) /\ sign = "OnlyMinus"
        /\ x = Num(<<1>>, 3))
       => s = <<"1", " ", "*", " ", "1", "0", "^", "(", "3", ")">>

\* the digits d with the group separator between groups of 3, from the right
RECURSIVE Grouped(_)
Grouped(d) ==
    IF Len(d) <= 3 THEN d
    ELSE Grouped(SubSeq(d, 1, Len(d) - 3)) \o group_separator
         \o SubSeq(d, Len(d) - 2, Len(d))

\* the rounded value v lies in the i-th bucket of the active prefix table
InBucket(v, i) ==
    IF scaling.mode = "Binary"
    THEN InBinaryBucket(v, BINARY_PREFIXES[i][1], BINARY_PREFIXES[i][2])
    ELSE InDecimalBucket(v, DECIMAL_PREFIXES[i][1], DECIMAL_PREFIXES[i][2])

\* |v| divided by the factor of the i-th bucket
Quotient(v, i) ==
    IF scaling.mode = "Binary" THEN HalvePow(Abs(v), BINARY_PREFIXES[i][1])
    ELSE Fin(FALSE, v.d, v.e - DECIMAL_PREFIXES[i][1])

\* C16 (as claimed): a number without fractional digits that a unit prefix
\* follows is grouped from one past its last digit, whatever the symbol, in
\* whole groups of 3 digits: at most 3 digits get no separator. With
\* Decimal(true), Magnitude(-6) gives format(0.000123) = "123 µ" as
\* Magnitude(-3) gives format(0.123) = "123 m".
C16_AnchorAfterLastDigit ==
    /\ (/\ ReturnedFinite /\ scaling.mode \in {"Decimal", "Binary"}
        /\ RoundedArgument.k = "fin" /\ ~IsZero(RoundedArgument)
        /\ ComputedDecPlaces = 0)
       => \A i \in 1..Len(PrefixTable(Formatter)) :
             InBucket(RoundedArgument, i) =>
                s = (IF RoundedArgument.neg THEN <<"-">> ELSE << >>)
                    \o SignPrefix(RoundedArgument)
                    \o Grouped(FmtFixed(Quotient(RoundedArgument, i), 0))
                    \o (IF PrefixTable(Formatter)[i][3] = << >> THEN << >>
                        ELSE (IF scaling.whitespace_separation THEN <<" ">> ELSE << >>)
                             \o PrefixTable(Formatter)[i][3])
    /\ (ReturnedFinite /\ scaling = Decimal(TRUE) /\ sign = "OnlyMinus") =>
          /\ (rounding = RoundingMagnitude(-6) /\ x = Num(<<1, 2, 3>>, -6)) =>
                s = <<"1", "2", "3", " ">> \o MICRO_SIGN
          /\ (rounding = RoundingMagnitude(-3) /\ x = Num(<<1, 2, 3>>, -3)) =>
                s = <<"1", "2", "3", " ", "m">>

\* C17 (as claimed): a rounded value of zero has magnitude 0 in every scaling
\* mode and no logarithm of zero is taken: Scaling::Scientific renders
\* mantissa 0 and exponent 0 (default rounding: format(0) = "0,000 * 10^(0)"),
\* Binary and Decimal render it without prefix (format(0) = "0,000").
C17_ZeroHasMagnitudeZero ==
    (ReturnedFinite /\ RoundedArgument.k = "fin" /\ IsZero(RoundedArgument)
     /\ ~RoundedArgument.neg /\ ComputedDecPlaces > 0) =>
        LET zero == SignPrefix(RoundedArgument)
                    \o Replace(FmtFixed(Zero(FALSE), ComputedDecPlaces), <<".">>,
                               decimal_separator)
        IN  /\ scaling.mode = "Scientific" =>
                  s = zero \o <<" ", "*", " ", "1", "0", "^", "(", "0", ")">>
            /\ scaling.mode \in {"Decimal", "Binary"} => s = zero
            /\ (rounding = SignificantDigits(4) /\ x = Zero(FALSE)) =>
                  /\ scaling.mode = "Scientific" =>
                        s = <<"0", ",", "0", "0", "0", " ", "*", " ", "1", "0",
                              "^", "(", "0", ")">>
                  /\ scaling.mode \in {"Decimal", "Binary"} =>
                        s = <<"0", ",", "0", "0", "0">>

\* the output of the last call, had the scaling been Scaling::None
WithoutScaling ==
    format([Formatter EXCEPT !.scaling = ScalingNone], x, overflow_checks, FALSE)

C19_RoundedZeroLikeZero ==
    (ReturnedFinite /\ RoundedArgument.k = "fin" /\ IsZero(RoundedArgument)) =>
        /\ ~RoundedArgument.neg
        /\ s = format(Formatter, Zero(FALSE), overflow_checks, FALSE)
        /\ (/\ x = Neg(Num(<<4>>, -1)) /\ rounding = RoundingMagnitude(0)
            /\ scaling = ScalingNone) =>
              s = (IF sign = "Always" THEN <<"+", "0">> ELSE <<"0">>)

\* the rounded value of the last call lies in the bucket without prefix
InEmptyBucket ==
    /\ ReturnedFinite /\ scaling.mode \in {"Decimal", "Binary"}
    /\ RoundedArgument.k = "fin" /\ ~IsZero(RoundedArgument)
    /\ IF scaling.mode = "Binary" THEN InBinaryBucket(RoundedArgument, 0, 10)
       ELSE InDecimalBucket(RoundedArgument, 0, 3)

==========================================================================
